---- MODULE Spec2Model ----
(***************************************************************************)
(* Two-tier notification rate limiting of internal/dnsforward:             *)
(* domainRateLimit, globalRateLimit and PushoverNotifier.ShouldNotify /    *)
(* Cleanup, called by concurrent goroutines.                               *)
(*                                                                         *)
(* Time.  time.Time and time.Duration count nanoseconds; the model's clock *)
(* counts whole seconds, so Minute is 60.  time.Now() is the variable now, *)
(* advanced by Tick; it never goes back (Go's monotonic reading).          *)
(*                                                                         *)
(* Granularity.  Every mutex acquisition is a step of its own, and every   *)
(* critical section is two steps (the read of the clock and of the stored  *)
(* time, then the write and the deferred Unlock), so that the mutex, and   *)
(* not the model's atomicity, is what keeps the check-and-update together. *)
(***************************************************************************)
EXTENDS Integers, Sequences, FiniteSets

VARIABLES
    now,             \* time.Now()
    perFiveMinutes,  \* PushoverConfig.RateLimitPer5Min
    perMinute,       \* PushoverConfig.GlobalRateLimitPerMin
    dInterval,       \* domainRateLimit.interval
    gInterval,       \* globalRateLimit.interval
    lastNotified,    \* domainRateLimit.lastNotified (map: domain -> time)
    lastSent,        \* globalRateLimit.lastSent
    dMu,             \* domainRateLimit.mu: 0 when free, else the holder
    gMu,             \* globalRateLimit.mu: 0 when free, else the holder
    pc,              \* where each goroutine is
    dom,             \* each goroutine's argument `domain`
    tnow,            \* each goroutine's local `now`
    ret,             \* what each goroutine's last call returned
    admitted,        \* history: per domain, the time recorded by its last admission
    at,              \* history: the time each goroutine's call read at the global gate
    lastAdmitted,    \* history: that time, of the last call that returned (true, "")
    callers,         \* the goroutines that start calls of their own accord
    deadline,        \* where the run's clock stops
    names,           \* the domains the run's callers ask about
    requests,        \* the filtering results and contexts the run's queries bring
    work,            \* each goroutine's call of processNotifications
    tasks,           \* the goroutines SendAsync has started, in order
    sink,            \* the requests that have reached the Pushover endpoint
    errlog,          \* what n.logger.ErrorContext has written
    script           \* the calls a scripted run still has to make

vars == <<now, perFiveMinutes, perMinute, dInterval, gInterval, lastNotified,
          lastSent, dMu, gMu, pc, dom, tnow, ret, admitted, at, lastAdmitted,
          callers, deadline, names, script, requests, work, tasks, sink,
          errlog>>

\* The history variables, which no operation reads.
hist == <<admitted, at, lastAdmitted>>

\* What no operation of the notifier writes.
env == <<callers, deadline, names, requests>>

\* What the rate limiters never touch: the producer's frames, the
\* background sends, the endpoint and the error log.
out == <<work, tasks, sink, errlog>>

(* ------------------------------- bounds -------------------------------- *)

\* The clock of a run with one caller stops at MaxTime.
MaxTime == 8

\* The clock of a run with concurrent callers stops at MaxTimeConc.
MaxTimeConc == 4

\* The clock of a run over many domains stops at MaxTimeMem.
MaxTimeMem == 6

\* The clock of a run checked for progress stops at MaxTimeFair.
MaxTimeFair == 2

\* A scripted run starts at a time of 0..MaxStart.
MaxStart == 2

\* The goroutines: two, so that any two calls can overlap.
Procs == {1, 2}

Domains == {"a.com", "b.com"}

\* The domains of a run that churns through more of them.
AllDomains == Domains \cup {"c.com"}

\* The configurations <<RateLimitPer5Min, GlobalRateLimitPerMin>> of the
\* runs: the defaults, rates below 1, rates that do not divide the base, and
\* rates high enough for the intervals to be a few ticks (3 and 2, 2 and 2,
\* 2 and 3, 3 and 1) or zero.
Configs ==
    { <<1, 1>>, <<0, 0>>, <<-1, -1>>, <<5, 7>>, <<7, 20>>,
      <<100, 30>>, <<150, 30>>, <<150, 20>>, <<100, 60>>,
      <<150, 61>>, <<301, 30>>, <<301, 61>> }

\* The configurations of the runs with concurrent callers (intervals of 1
\* and 0, 2 and 1).
ConcConfigs == { <<300, 61>>, <<150, 60>> }

\* The configurations of the runs over many domains (intervals of 1 and 3,
\* 1 and 2).
MemConfigs == { <<300, 20>>, <<300, 30>> }

\* The configuration of the runs checked for progress (intervals of 1 and 1).
FairConfigs == { <<300, 60>> }

PushoverConfig(c) ==
    [RateLimitPer5Min |-> c[1], GlobalRateLimitPerMin |-> c[2]]

(* ------------------------------- time ---------------------------------- *)

\* time.Minute, in the model's ticks (seconds).
Minute == 60

\* The zero time.Time, which globalRateLimit.lastSent holds until the first
\* admission: no reading of the clock equals it.
ZeroTime == -1

\* The largest time.Duration: Time.Sub saturates to it.
maxDuration == 2147483647

\* t.Sub(u).  The zero Time lies more than maxDuration before any reading of
\* the clock, so the difference saturates.
Sub(t, u) == IF u = ZeroTime THEN maxDuration ELSE t - u

\* t.Add(d)
Add(t, d) == t + d

\* "Not after" for "before".
NotAfter(t, u) == t <= u

\* t.Before(u)
Before(t, u) == t < u

(* ---------------------------- construction ----------------------------- *)

\* The domain tier on the global tier's base of one minute.
newDomainRateLimitPerMinute(rate) ==
    IF rate > 1 THEN Minute \div rate ELSE Minute

\* newDomainRateLimit(perFiveMinutes).interval
newDomainRateLimit(rate) ==
    IF rate > 1 THEN (5 * Minute) \div rate ELSE 5 * Minute

\* The global tier on the domain tier's base of five minutes.
newGlobalRateLimitPerFive(rate) ==
    IF rate > 1 THEN (5 * Minute) \div rate ELSE 5 * Minute

\* newGlobalRateLimit(perMinute).interval
newGlobalRateLimit(rate) ==
    IF rate > 1 THEN Minute \div rate ELSE Minute

NoRet == [op |-> "none", ok |-> FALSE, reason |-> "", removed |-> 0]

Returned(ok, reason) ==
    [op |-> "ShouldNotify", ok |-> ok, reason |-> reason, removed |-> 0]

Cleaned(n) == [op |-> "Cleanup", ok |-> FALSE, reason |-> "", removed |-> n]

\* dctx.result when it is nil
NilResult == [isNil |-> TRUE, Rules |-> << >>, Reason |-> "NotFilteredNotFound"]

\* dctx.result: the matched rules' texts and the reason
Result(rules, reason) == [isNil |-> FALSE, Rules |-> rules, Reason |-> reason]

\* A goroutine that is not inside processNotifications, before its first call.
NoWork == [stage |-> "none", result |-> NilResult, ctxDone |-> FALSE]

\* NewPushoverNotifier(logger, config), no goroutine running yet.
NewPushoverNotifier(config) ==
    /\ perFiveMinutes = config.RateLimitPer5Min
    /\ perMinute = config.GlobalRateLimitPerMin
    /\ dInterval = newDomainRateLimit(config.RateLimitPer5Min)
    /\ gInterval = newGlobalRateLimit(config.GlobalRateLimitPerMin)
    /\ lastNotified = << >>
    /\ lastSent = ZeroTime
    /\ dMu = 0
    /\ gMu = 0
    /\ pc = [p \in Procs |-> "idle"]
    /\ dom = [p \in Procs |-> "a.com"]
    /\ tnow = [p \in Procs |-> 0]
    /\ ret = [p \in Procs |-> NoRet]
    /\ admitted = [d \in AllDomains |-> ZeroTime]
    /\ at = [p \in Procs |-> 0]
    /\ lastAdmitted = ZeroTime
    /\ work = [p \in Procs |-> NoWork]
    /\ tasks = << >>
    /\ sink = << >>
    /\ errlog = << >>

\* One goroutine calls the notifier, at times of its choosing.
Init ==
    /\ now = 0
    /\ script = << >>
    /\ callers = {1}
    /\ deadline = MaxTime
    /\ names = Domains
    /\ requests = {}
    /\ \E c \in Configs : NewPushoverNotifier(PushoverConfig(c))

\* Every goroutine calls the notifier.
ConcInit ==
    /\ now = 0
    /\ script = << >>
    /\ callers = Procs
    /\ deadline = MaxTimeConc
    /\ names = Domains
    /\ requests = {}
    /\ \E c \in ConcConfigs : NewPushoverNotifier(PushoverConfig(c))

\* One goroutine calls the notifier, about any of three domains.
MemInit ==
    /\ now = 0
    /\ script = << >>
    /\ callers = {1}
    /\ deadline = MaxTimeMem
    /\ names = AllDomains
    /\ requests = {}
    /\ \E c \in MemConfigs : NewPushoverNotifier(PushoverConfig(c))

(* ------------------------------ the clock ------------------------------ *)

Tick ==
    /\ now < deadline
    /\ now' = now + 1
    /\ UNCHANGED <<perFiveMinutes, perMinute, dInterval, gInterval, lastNotified,
                   lastSent, dMu, gMu, pc, dom, tnow, ret, hist, script, env, out>>

(* ------------------- PushoverNotifier.ShouldNotify --------------------- *)

\* A goroutine calls n.ShouldNotify(d).
CallShouldNotify(p, d) ==
    /\ p \in callers
    /\ d \in names
    /\ pc[p] = "idle"
    /\ pc' = [pc EXCEPT ![p] = "g_lock"]
    /\ dom' = [dom EXCEPT ![p] = d]
    /\ ret' = [ret EXCEPT ![p] = NoRet]
    /\ UNCHANGED <<now, perFiveMinutes, perMinute, dInterval, gInterval,
                   lastNotified, lastSent, dMu, gMu, tnow, hist, script, env, out>>

\* No mutual exclusion: Lock never waits.
MutexNeverWaits(mu) == TRUE

\* sync.Mutex.Lock: the caller goes on once the mutex is free.
MutexFree(mu) == mu = 0

\* The deferred Unlock left out: the holder keeps the mutex.
UnlockMissing(mu, p) == mu

\* sync.Mutex.Unlock, by the holder p (deferred: it runs as the function returns).
Unlock(mu, p) == IF mu = p THEN 0 ELSE mu

\* globalRateLimit.shouldNotify: r.mu.Lock()
GLock(p) ==
    /\ pc[p] = "g_lock"
    /\ MutexFree(gMu)
    /\ gMu' = p
    /\ pc' = [pc EXCEPT ![p] = "g_check"]
    /\ UNCHANGED <<now, perFiveMinutes, perMinute, dInterval, gInterval,
                   lastNotified, lastSent, dMu, dom, tnow, ret, hist, script, env, out>>

\* The comparison the wrong way round.
globalDeniesInverted(t) == Sub(t, lastSent) > gInterval

\* globalRateLimit.shouldNotify: now.Sub(r.lastSent) < r.interval
globalDenies(t) == Sub(t, lastSent) < gInterval

\* ShouldNotify without its early return: the domain limiter is consulted
\* whatever the global limiter said.
afterGlobalNoReturn(ok) == "d_lock"

\* ShouldNotify: where the call goes once globalRateLimit.shouldNotify has
\* returned ok: on to the domain limiter, or back to the caller.
afterGlobal(ok) == IF ok THEN "d_lock" ELSE "idle"

\* globalRateLimit.shouldNotify: now := time.Now() and the test; on denial
\* the deferred Unlock, and ShouldNotify returns (false, "global").
GCheck(p) ==
    /\ pc[p] = "g_check"
    /\ IF globalDenies(now)
       THEN /\ gMu' = Unlock(gMu, p)
            /\ ret' = [ret EXCEPT ![p] = Returned(FALSE, "global")]
            /\ pc' = [pc EXCEPT ![p] = afterGlobal(FALSE)]
            /\ UNCHANGED <<tnow, at>>
       ELSE /\ tnow' = [tnow EXCEPT ![p] = now]
            /\ at' = [at EXCEPT ![p] = now]
            /\ pc' = [pc EXCEPT ![p] = "g_set"]
            /\ UNCHANGED <<gMu, ret>>
    /\ UNCHANGED <<now, perFiveMinutes, perMinute, dInterval, gInterval,
                   lastNotified, lastSent, dMu, dom, admitted, lastAdmitted,
                   script, env, out>>

\* The global limiter without `r.lastSent = now`: the admission leaves no trace.
GSetNoRecord(p) ==
    /\ pc[p] = "g_set"
    /\ gMu' = Unlock(gMu, p)
    /\ tnow' = [tnow EXCEPT ![p] = 0]
    /\ pc' = [pc EXCEPT ![p] = afterGlobal(TRUE)]
    /\ UNCHANGED <<now, perFiveMinutes, perMinute, dInterval, gInterval,
                   lastNotified, lastSent, dMu, dom, ret, hist, script, env, out>>

\* globalRateLimit.shouldNotify: r.lastSent = now; return true (and the
\* deferred Unlock).  ShouldNotify goes on to the domain limiter.
GSet(p) ==
    /\ pc[p] = "g_set"
    /\ lastSent' = tnow[p]
    /\ gMu' = Unlock(gMu, p)
    /\ tnow' = [tnow EXCEPT ![p] = 0]
    /\ pc' = [pc EXCEPT ![p] = afterGlobal(TRUE)]
    /\ UNCHANGED <<now, perFiveMinutes, perMinute, dInterval, gInterval,
                   lastNotified, dMu, dom, ret, hist, script, env, out>>

\* domainRateLimit.shouldNotify: r.mu.Lock()
DLock(p) ==
    /\ pc[p] = "d_lock"
    /\ MutexFree(dMu)
    /\ dMu' = p
    /\ pc' = [pc EXCEPT ![p] = "d_check"]
    /\ UNCHANGED <<now, perFiveMinutes, perMinute, dInterval, gInterval,
                   lastNotified, lastSent, gMu, dom, tnow, ret, hist, script, env, out>>

\* The comparison the wrong way round.
domainDeniesInverted(d, t) ==
    /\ d \in DOMAIN lastNotified
    /\ Sub(t, lastNotified[d]) > dInterval

\* The comparison off by one: a call exactly one interval later is denied.
domainDeniesAtInterval(d, t) ==
    /\ d \in DOMAIN lastNotified
    /\ Sub(t, lastNotified[d]) <= dInterval

\* domainRateLimit.shouldNotify: the entry exists and now.Sub(last) < r.interval
domainDenies(d, t) ==
    /\ d \in DOMAIN lastNotified
    /\ Sub(t, lastNotified[d]) < dInterval

\* The domain limiter's denial giving the global window back.
DCheckRollback(p) ==
    /\ pc[p] = "d_check"
    /\ IF domainDenies(dom[p], now)
       THEN /\ dMu' = Unlock(dMu, p)
            /\ ret' = [ret EXCEPT ![p] = Returned(FALSE, "domain")]
            /\ pc' = [pc EXCEPT ![p] = "idle"]
            /\ at' = [at EXCEPT ![p] = 0]
            /\ tnow' = tnow
            /\ lastSent' = lastAdmitted
       ELSE /\ tnow' = [tnow EXCEPT ![p] = now]
            /\ pc' = [pc EXCEPT ![p] = "d_set"]
            /\ UNCHANGED <<dMu, ret, at, lastSent>>
    /\ UNCHANGED <<now, perFiveMinutes, perMinute, dInterval, gInterval,
                   lastNotified, gMu, dom, admitted, lastAdmitted,
                   script, env, out>>

\* domainRateLimit.shouldNotify: now := time.Now() and the test; on denial
\* the deferred Unlock, and ShouldNotify returns (false, "domain").
DCheck(p) ==
    /\ pc[p] = "d_check"
    /\ IF domainDenies(dom[p], now)
       THEN /\ dMu' = Unlock(dMu, p)
            /\ ret' = [ret EXCEPT ![p] = Returned(FALSE, "domain")]
            /\ pc' = [pc EXCEPT ![p] = "idle"]
            /\ at' = [at EXCEPT ![p] = 0]
            /\ tnow' = tnow
       ELSE /\ tnow' = [tnow EXCEPT ![p] = now]
            /\ pc' = [pc EXCEPT ![p] = "d_set"]
            /\ UNCHANGED <<dMu, ret, at>>
    /\ UNCHANGED <<now, perFiveMinutes, perMinute, dInterval, gInterval,
                   lastNotified, lastSent, gMu, dom, admitted, lastAdmitted,
                   script, env, out>>

\* A fresh map holding the one key, for the assignment into the map.
MapSetFresh(m, k, v) == [x \in {k} |-> v]

\* m[k] = v of a Go map
MapSet(m, k, v) == [x \in (DOMAIN m) \cup {k} |-> IF x = k THEN v ELSE m[x]]

\* domainRateLimit.shouldNotify: r.lastNotified[domain] = now; return true
\* (and the deferred Unlock).  ShouldNotify returns (true, "").
DSet(p) ==
    /\ pc[p] = "d_set"
    /\ lastNotified' = MapSet(lastNotified, dom[p], tnow[p])
    /\ admitted' = [admitted EXCEPT ![dom[p]] = tnow[p]]
    /\ lastAdmitted' = at[p]
    /\ at' = [at EXCEPT ![p] = 0]
    /\ dMu' = Unlock(dMu, p)
    /\ tnow' = [tnow EXCEPT ![p] = 0]
    /\ ret' = [ret EXCEPT ![p] = Returned(TRUE, "")]
    /\ pc' = [pc EXCEPT ![p] = "idle"]
    /\ UNCHANGED <<now, perFiveMinutes, perMinute, dInterval, gInterval,
                   lastSent, gMu, dom, script, env, out>>

(* ---------------------- PushoverNotifier.Cleanup ----------------------- *)

\* A goroutine calls n.Cleanup().
CallCleanup(p) ==
    /\ p \in callers
    /\ pc[p] = "idle"
    /\ pc' = [pc EXCEPT ![p] = "c_lock"]
    /\ ret' = [ret EXCEPT ![p] = NoRet]
    /\ UNCHANGED <<now, perFiveMinutes, perMinute, dInterval, gInterval,
                   lastNotified, lastSent, dMu, gMu, dom, tnow, hist, script, env, out>>

\* domainRateLimit.cleanup: r.mu.Lock()
CLock(p) ==
    /\ pc[p] = "c_lock"
    /\ MutexFree(dMu)
    /\ dMu' = p
    /\ pc' = [pc EXCEPT ![p] = "c_body"]
    /\ UNCHANGED <<now, perFiveMinutes, perMinute, dInterval, gInterval,
                   lastNotified, lastSent, gMu, dom, tnow, ret, hist, script, env, out>>

\* The cutoff at four intervals back instead of two.
staleTwiceAsLate(t, when) == Before(t, Add(when, -dInterval * 4))

\* The cutoff on the wrong side of the clock: now + 2 x interval.
staleSignError(t, when) == Before(t, Add(when, dInterval * 2))

\* domainRateLimit.cleanup: the entry of time t is deleted at time `when`
stale(t, when) == Before(t, Add(when, -dInterval * 2))

\* The loop leaving at its first deletion: one stale entry goes per call.
cleanupFirstOnly(m, when) ==
    LET old == {x \in DOMAIN m : stale(m[x], when)}
        gone == IF old = {} THEN {} ELSE {CHOOSE x \in old : TRUE}
    IN  [d \in (DOMAIN m) \ gone |-> m[d]]

\* domainRateLimit.cleanup: the map after the loop run at time `when`
cleanup(m, when) ==
    [d \in {x \in DOMAIN m : ~stale(m[x], when)} |-> m[d]]

\* domainRateLimit.cleanup: cutoff, the loop, the deferred Unlock.
CBody(p) ==
    /\ pc[p] = "c_body"
    /\ lastNotified' = cleanup(lastNotified, now)
    /\ dMu' = Unlock(dMu, p)
    /\ ret' = [ret EXCEPT ![p] =
                 Cleaned(Cardinality(DOMAIN lastNotified)
                         - Cardinality(DOMAIN lastNotified'))]
    /\ pc' = [pc EXCEPT ![p] = "idle"]
    /\ UNCHANGED <<now, perFiveMinutes, perMinute, dInterval, gInterval,
                   lastSent, gMu, dom, tnow, hist, script, env, out>>

(* --------------------------- specification ----------------------------- *)

\* One step of goroutine p inside a call.
Step(p) ==
    \/ GLock(p)
    \/ GCheck(p)
    \/ GSet(p)
    \/ DLock(p)
    \/ DCheck(p)
    \/ DSet(p)
    \/ CLock(p)
    \/ CBody(p)

Next ==
    \/ Tick
    \/ \E p \in Procs, d \in AllDomains : CallShouldNotify(p, d)
    \/ \E p \in Procs : CallCleanup(p)
    \/ \E p \in Procs : Step(p)

Spec == Init /\ [][Next]_vars

ConcSpec == ConcInit /\ [][Next]_vars

MemSpec == MemInit /\ [][Next]_vars

\* The scheduling of the goroutines in calls: each goes on running, and a
\* goroutine waiting for a mutex gets it (sync.Mutex hands a mutex over to a
\* waiter that has waited long), so a step that is enabled again and again
\* is taken.
Fairness == \A p \in Procs : SF_vars(Step(p))

\* Every goroutine calls the notifier, over a short time.
FairInit ==
    /\ now = 0
    /\ script = << >>
    /\ callers = Procs
    /\ deadline = MaxTimeFair
    /\ names = Domains
    /\ requests = {}
    /\ \E c \in FairConfigs : NewPushoverNotifier(PushoverConfig(c))

FairSpec == FairInit /\ [][Next]_vars /\ Fairness

(* ---------------------------- a scripted run --------------------------- *)

\* Scenario A's calls, from t0 on: the domain and the time of each (seconds).
ScenarioA(t0) ==
    << [domain |-> "a.com", at |-> t0],
       [domain |-> "a.com", at |-> t0 + 1],
       [domain |-> "b.com", at |-> t0 + 30],
       [domain |-> "b.com", at |-> t0 + 61] >>

\* A fresh notifier with the rates of scenario A (1 per 5 min, 1 per min);
\* goroutine 1 makes the scripted calls under a clock the run holds still
\* during each of them, and goroutine 2 calls Cleanup whenever it likes.
ScenarioInit ==
    /\ now \in 0..MaxStart
    /\ script = ScenarioA(now)
    /\ callers = {2}
    /\ deadline = now + 62
    /\ names = Domains
    /\ requests = {}
    /\ NewPushoverNotifier(PushoverConfig(<<1, 1>>))

\* Goroutine 1 makes the script's next call, at its time.
ScriptCall ==
    /\ script # << >>
    /\ pc[1] = "idle"
    /\ now = Head(script).at
    /\ script' = Tail(script)
    /\ pc' = [pc EXCEPT ![1] = "g_lock"]
    /\ dom' = [dom EXCEPT ![1] = Head(script).domain]
    /\ ret' = [ret EXCEPT ![1] = NoRet]
    /\ UNCHANGED <<now, perFiveMinutes, perMinute, dInterval, gInterval,
                   lastNotified, lastSent, dMu, gMu, tnow, hist, env, out>>

\* The scripted run's clock: still during a scripted call, and never past
\* the time of the next one.
ScriptTick ==
    /\ pc[1] = "idle"
    /\ script # << >> => now < Head(script).at
    /\ Tick

ScenarioNext ==
    \/ ScriptTick
    \/ ScriptCall
    \/ \E p \in Procs : CallCleanup(p)
    \/ \E p \in Procs : Step(p)

ScenarioSpec == ScenarioInit /\ [][ScenarioNext]_vars

(* ---------------------- the producer and the sends --------------------- *)

\* SendAsync is not called once MaxTasks sends have been started.
MaxTasks == 2

\* The clock of a run with sends stops at MaxTimeSend.
MaxTimeSend == 2

\* The clock of a run over every filtering result stops at MaxTimeProc.
MaxTimeProc == 1

TaskIds == 1..MaxTasks

\* The values of filtering.Reason.
Reasons ==
    { "NotFilteredNotFound", "NotFilteredAllowList", "NotFilteredError",
      "FilteredBlockList", "FilteredSafeBrowsing", "FilteredParental",
      "FilteredInvalid", "FilteredSafeSearch", "FilteredBlockedService",
      "Rewritten", "RewrittenAutoHosts", "RewrittenRule" }

\* The lists of matched rules of a result that has any: one rule, or two.
RuleLists == { <<"r1">>, <<"r2", "r1">> }

\* http.StatusOK
StatusOK == 200

\* The statuses the endpoint answers with.
Statuses == {StatusOK, 201, 204, 500}

\* What makes client.Do fail once the request is out: the connection
\* breaking, or the client's Timeout (10 s) running out.
Failures == {"transport", "timeout"}

\* Both rewrite reasons taken for the first of them only.
formatTitleOneRewrite(reason) ==
    CASE reason = "FilteredBlockList" -> <<"AdGuard:", "Domain", "Blocked">>
      [] reason = "NotFilteredAllowList" -> <<"AdGuard:", "Domain", "Allowed">>
      [] reason = "Rewritten" -> <<"AdGuard:", "Domain", "Rewritten">>
      [] OTHER -> <<"AdGuard:", "Custom", "Rule", "Match">>

\* PushoverNotifier.formatTitle; a title is the sequence of its words.
formatTitle(reason) ==
    CASE reason = "FilteredBlockList" -> <<"AdGuard:", "Domain", "Blocked">>
      [] reason = "NotFilteredAllowList" -> <<"AdGuard:", "Domain", "Allowed">>
      [] reason \in {"Rewritten", "RewrittenRule"} ->
            <<"AdGuard:", "Domain", "Rewritten">>
      [] OTHER -> <<"AdGuard:", "Custom", "Rule", "Match">>

\* The event processNotifications builds (the client and the timestamp,
\* which only the message body shows, are left out).
NotificationEvent(host, rule, reason) ==
    [Domain |-> host, RuleText |-> rule, Reason |-> reason]

\* The goroutine of SendAsync(ctx, event), before its first step.
Task(ctxDone, event) ==
    [event |-> event, ctxDone |-> ctxDone, st |-> "spawned", title |-> << >>,
     attempts |-> 0, status |-> 0, err |-> "none"]

\* A goroutine calls s.processNotifications(ctx, dctx, host), q being the
\* result and the context of the query: without a matched rule it returns
\* at once, else it calls n.ShouldNotify(host).
ProcStart(p, host, q) ==
    /\ p \in callers
    /\ host \in names
    /\ q \in requests
    /\ pc[p] = "idle"
    /\ work[p].stage # "called"
    /\ Len(tasks) < MaxTasks
    /\ IF q.result.isNil \/ Len(q.result.Rules) = 0
       THEN /\ work' = [work EXCEPT ![p] = [NoWork EXCEPT !.stage = "skipped"]]
            /\ UNCHANGED <<pc, dom, ret>>
       ELSE /\ work' = [work EXCEPT ![p] =
                          [stage |-> "called", result |-> q.result,
                           ctxDone |-> q.ctxDone]]
            /\ pc' = [pc EXCEPT ![p] = "g_lock"]
            /\ dom' = [dom EXCEPT ![p] = host]
            /\ ret' = [ret EXCEPT ![p] = NoRet]
    /\ UNCHANGED <<now, perFiveMinutes, perMinute, dInterval, gInterval,
                   lastNotified, lastSent, dMu, gMu, tnow, hist, script, env,
                   tasks, sink, errlog>>

\* processNotifications going on to SendAsync whatever ShouldNotify said.
ProcAfterNoReturn(p) ==
    /\ work[p].stage = "called"
    /\ pc[p] = "idle"
    /\ tasks' = Append(tasks,
                  Task(work[p].ctxDone,
                       NotificationEvent(dom[p], work[p].result.Rules[1],
                                         work[p].result.Reason)))
    /\ work' = [work EXCEPT ![p] = [NoWork EXCEPT !.stage = "sent"]]
    /\ UNCHANGED <<now, perFiveMinutes, perMinute, dInterval, gInterval,
                   lastNotified, lastSent, dMu, gMu, pc, dom, tnow, ret, hist,
                   script, env, sink, errlog>>

\* processNotifications after ShouldNotify has returned: on a denial it
\* returns; else it builds the event from Rules[0] and calls SendAsync, which
\* starts the goroutine and returns.
ProcAfter(p) ==
    /\ work[p].stage = "called"
    /\ pc[p] = "idle"
    /\ IF ~ret[p].ok
       THEN /\ work' = [work EXCEPT ![p] = [NoWork EXCEPT !.stage = "denied"]]
            /\ tasks' = tasks
       ELSE /\ tasks' = Append(tasks,
                          Task(work[p].ctxDone,
                               NotificationEvent(dom[p], work[p].result.Rules[1],
                                                 work[p].result.Reason)))
            /\ work' = [work EXCEPT ![p] = [NoWork EXCEPT !.stage = "sent"]]
    /\ UNCHANGED <<now, perFiveMinutes, perMinute, dInterval, gInterval,
                   lastNotified, lastSent, dMu, gMu, pc, dom, tnow, ret, hist,
                   script, env, sink, errlog>>

\* The query's context is cancelled while its send is under way.
Cancel(i) ==
    /\ i <= Len(tasks)
    /\ tasks[i].st # "ended"
    /\ ~tasks[i].ctxDone
    /\ tasks' = [tasks EXCEPT ![i].ctxDone = TRUE]
    /\ UNCHANGED <<now, perFiveMinutes, perMinute, dInterval, gInterval,
                   lastNotified, lastSent, dMu, gMu, pc, dom, tnow, ret, hist,
                   script, env, work, sink, errlog>>

\* A context that is never seen as done.
ctxNeverDone(t) == FALSE

\* ctx.Done() is closed, as the transport sees it before it sends.
ctxDone(t) == t.ctxDone

\* Any 2xx status taken for success.
isSuccess2xx(status) == status \in 200..299

\* send's test of the response: resp.StatusCode == http.StatusOK
isSuccess(status) == status = StatusOK

\* The line SendAsync's goroutine logs when send returns an error.
LogLine(i, err) == [task |-> i, domain |-> tasks[i].event.Domain, err |-> err]

\* send up to client.Do: the title, the request, and the transport taking
\* the request.  With the context done Do returns its error and nothing goes
\* out; the goroutine logs it and ends.
TaskIssue(i) ==
    /\ i <= Len(tasks)
    /\ tasks[i].st = "spawned"
    /\ LET title == formatTitle(tasks[i].event.Reason)
       IN  IF ctxDone(tasks[i])
           THEN /\ tasks' = [tasks EXCEPT ![i].st = "ended",
                                          ![i].title = title,
                                          ![i].attempts = @ + 1,
                                          ![i].err = "sending request"]
                /\ errlog' = Append(errlog, LogLine(i, "sending request"))
                /\ sink' = sink
           ELSE /\ tasks' = [tasks EXCEPT ![i].st = "issued",
                                          ![i].title = title,
                                          ![i].attempts = @ + 1]
                /\ sink' = Append(sink, [task |-> i, title |-> title])
                /\ errlog' = errlog
    /\ UNCHANGED <<now, perFiveMinutes, perMinute, dInterval, gInterval,
                   lastNotified, lastSent, dMu, gMu, pc, dom, tnow, ret, hist,
                   script, env, work>>

\* client.Do failing before the request is out (no route, no connection).
TaskNoConn(i) ==
    /\ i <= Len(tasks)
    /\ tasks[i].st = "spawned"
    /\ tasks' = [tasks EXCEPT ![i].st = "ended",
                              ![i].title = formatTitle(tasks[i].event.Reason),
                              ![i].attempts = @ + 1,
                              ![i].err = "sending request"]
    /\ errlog' = Append(errlog, LogLine(i, "sending request"))
    /\ UNCHANGED <<now, perFiveMinutes, perMinute, dInterval, gInterval,
                   lastNotified, lastSent, dMu, gMu, pc, dom, tnow, ret, hist,
                   script, env, work, sink>>

\* A failed send giving the global window back.
TaskResponseRollback(i, status) ==
    /\ i <= Len(tasks)
    /\ tasks[i].st = "issued"
    /\ IF isSuccess(status)
       THEN /\ tasks' = [tasks EXCEPT ![i].st = "ended",
                                      ![i].status = status,
                                      ![i].err = ""]
            /\ UNCHANGED <<errlog, lastSent>>
       ELSE /\ tasks' = [tasks EXCEPT ![i].st = "ended",
                                      ![i].status = status,
                                      ![i].err = "pushover returned status"]
            /\ errlog' = Append(errlog, LogLine(i, "pushover returned status"))
            /\ lastSent' = ZeroTime
    /\ UNCHANGED <<now, perFiveMinutes, perMinute, dInterval, gInterval,
                   lastNotified, dMu, gMu, pc, dom, tnow, ret, hist,
                   script, env, work, sink>>

\* client.Do returning a response: send returns nil on StatusOK, else the
\* error of the status, which the goroutine logs; the goroutine ends.
TaskResponse(i, status) ==
    /\ i <= Len(tasks)
    /\ tasks[i].st = "issued"
    /\ IF isSuccess(status)
       THEN /\ tasks' = [tasks EXCEPT ![i].st = "ended",
                                      ![i].status = status,
                                      ![i].err = ""]
            /\ errlog' = errlog
       ELSE /\ tasks' = [tasks EXCEPT ![i].st = "ended",
                                      ![i].status = status,
                                      ![i].err = "pushover returned status"]
            /\ errlog' = Append(errlog, LogLine(i, "pushover returned status"))
    /\ UNCHANGED <<now, perFiveMinutes, perMinute, dInterval, gInterval,
                   lastNotified, lastSent, dMu, gMu, pc, dom, tnow, ret, hist,
                   script, env, work, sink>>

\* A failed client.Do tried again.
TaskFailureRetry(i, cause) ==
    /\ i <= Len(tasks)
    /\ tasks[i].st = "issued"
    /\ tasks' = [tasks EXCEPT ![i].st = "spawned"]
    /\ errlog' = Append(errlog, LogLine(i, "sending request"))
    /\ UNCHANGED <<now, perFiveMinutes, perMinute, dInterval, gInterval,
                   lastNotified, lastSent, dMu, gMu, pc, dom, tnow, ret, hist,
                   script, env, work, sink>>

\* client.Do returning an error once the request is out (the connection
\* breaks, the client's Timeout runs out, the context is cancelled): send
\* returns it, the goroutine logs it and ends.
TaskFailure(i, cause) ==
    /\ i <= Len(tasks)
    /\ tasks[i].st = "issued"
    /\ tasks' = [tasks EXCEPT ![i].st = "ended",
                              ![i].err = "sending request"]
    /\ errlog' = Append(errlog, LogLine(i, "sending request"))
    /\ UNCHANGED <<now, perFiveMinutes, perMinute, dInterval, gInterval,
                   lastNotified, lastSent, dMu, gMu, pc, dom, tnow, ret, hist,
                   script, env, work, sink>>

\* One step of the goroutine SendAsync started i-th.
TaskStep(i) ==
    \/ TaskIssue(i)
    \/ TaskNoConn(i)
    \/ \E status \in Statuses : TaskResponse(i, status)
    \/ \E cause \in Failures : TaskFailure(i, cause)

\* One step of goroutine p inside ShouldNotify.
Gate(p) ==
    \/ GLock(p)
    \/ GCheck(p)
    \/ GSet(p)
    \/ DLock(p)
    \/ DCheck(p)
    \/ DSet(p)

SendNext ==
    \/ Tick
    \/ \E p \in Procs, host \in AllDomains, q \in requests : ProcStart(p, host, q)
    \/ \E p \in Procs : ProcAfter(p)
    \/ \E p \in Procs : Gate(p)
    \/ \E i \in TaskIds : TaskStep(i)
    \/ \E i \in TaskIds : Cancel(i)

\* The queries of a run with sends: one blocklist match each, under a
\* context that is live or already cancelled.
SendRequests ==
    { [result |-> Result(<<"r1">>, "FilteredBlockList"), ctxDone |-> b] :
        b \in BOOLEAN }

\* One goroutine serves queries for two domains, at rates (100 per 5 min,
\* 30 per min: intervals of 3 and 2) that admit more than one of them.
SendInit ==
    /\ now = 0
    /\ script = << >>
    /\ callers = {1}
    /\ deadline = MaxTimeSend
    /\ names = Domains
    /\ requests = SendRequests
    /\ NewPushoverNotifier(PushoverConfig(<<100, 30>>))

SendSpec == SendInit /\ [][SendNext]_vars

\* The scheduling of the sends: the Go scheduler runs every goroutine that
\* can run, and client.Do returns, with the response, with an error or,
\* after the client's Timeout of 10 s, with the error of the timeout.
SendFairness == \A i \in TaskIds : WF_vars(TaskStep(i))

SendFairSpec == SendInit /\ [][SendNext]_vars /\ SendFairness

\* The queries of a run over every filtering result: no result, no rule,
\* and each list of rules under each reason.
ProcRequests ==
    { [result |-> r, ctxDone |-> FALSE] :
        r \in {NilResult, Result(<< >>, "NotFilteredNotFound")}
              \cup {Result(rs, k) : rs \in RuleLists, k \in Reasons} }

\* One goroutine serves queries for a.com, at rates (1 per 5 min, 60 per
\* min: intervals of 300 and 1) under which both gates deny.
ProcInit ==
    /\ now = 0
    /\ script = << >>
    /\ callers = {1}
    /\ deadline = MaxTimeProc
    /\ names = {"a.com"}
    /\ requests = ProcRequests
    /\ NewPushoverNotifier(PushoverConfig(<<1, 60>>))

ProcSpec == ProcInit /\ [][SendNext]_vars

(* ------------------------------- claims -------------------------------- *)

\* Goroutine p takes a step.
Stepped(p) == pc'[p] # pc[p]

DeniedGlobal == Returned(FALSE, "global")

DeniedDomain == Returned(FALSE, "domain")

Admitted == Returned(TRUE, "")

\* C1: a ShouldNotify(d) that the global gate denies returns (false,
\* "global") from the global limiter's test, and no step of the call, from
\* its start to that return, consults or changes the domain limiter: the map
\* (keys and times, d's included) and the domain mutex are as they were, and
\* the call is over (it does not go on to the domain limiter).
C1_GlobalDenialLeavesDomainLimiter ==
    [][\A p \in Procs :
         /\ ret'[p] = DeniedGlobal => pc'[p] = "idle"
         /\ (Stepped(p) /\ ret'[p] = DeniedGlobal) =>
               /\ pc[p] = "g_check"
               /\ globalDenies(now)
         /\ (Stepped(p) /\ (pc'[p] = "g_lock" \/ pc[p] \in {"g_lock", "g_check"})) =>
               /\ lastNotified' = lastNotified
               /\ dMu' = dMu
               /\ admitted' = admitted
         /\ (Stepped(p) /\ pc[p] = "g_check" /\ globalDenies(now)) =>
               ret'[p] = DeniedGlobal]_vars

\* C1's case: a call for a domain whose own window is over (the domain gate
\* would admit it) has been denied by the global gate, and the domain's
\* stored time is still that of its last admission.
C1_Witness ==
    \E p \in Procs :
        /\ pc[p] = "idle"
        /\ ret[p] = DeniedGlobal
        /\ dom[p] \in DOMAIN lastNotified
        /\ now - lastNotified[dom[p]] >= dInterval
        /\ lastNotified[dom[p]] = admitted[dom[p]]
        /\ dInterval > 0

\* C2: when d was last admitted at time t and a ShouldNotify(d) that has
\* passed the global gate reaches the domain limiter's test at a time less
\* than interval_domain after t, the call returns (false, "domain") and the
\* map still holds t for d.
C2_SecondWithinIntervalDenied ==
    [][\A p \in Procs :
         (/\ Stepped(p)
          /\ pc[p] = "d_check"
          /\ admitted[dom[p]] # ZeroTime
          /\ now - admitted[dom[p]] < dInterval) =>
            /\ ret'[p] = DeniedDomain
            /\ pc'[p] = "idle"
            /\ dom[p] \in DOMAIN lastNotified'
            /\ lastNotified'[dom[p]] = admitted[dom[p]]
            /\ lastNotified' = lastNotified
            /\ admitted' = admitted]_vars

\* C2's case: a call has been denied by the domain gate, its domain's stored
\* time being that of the earlier admission, less than an interval ago.
C2_Witness ==
    \E p \in Procs :
        /\ pc[p] = "idle"
        /\ ret[p] = DeniedDomain
        /\ dom[p] \in DOMAIN lastNotified
        /\ lastNotified[dom[p]] = admitted[dom[p]]
        /\ now > lastNotified[dom[p]]
        /\ now - lastNotified[dom[p]] < dInterval

\* C3: when a ShouldNotify(d) that has passed the global gate reaches the
\* domain limiter's test at least interval_domain (exactly interval_domain
\* included) after d's last admission, or d was never admitted, it returns
\* (true, "") and the map holds the time of that test for d.
C3_SpacedByIntervalAdmitted ==
    [][\A p \in Procs :
         /\ (/\ Stepped(p)
             /\ pc[p] = "d_check"
             /\ (admitted[dom[p]] = ZeroTime \/ now - admitted[dom[p]] >= dInterval)) =>
               /\ pc'[p] = "d_set"
               /\ tnow'[p] = now
         /\ (Stepped(p) /\ pc[p] = "d_set") =>
               /\ ret'[p] = Admitted
               /\ pc'[p] = "idle"
               /\ lastNotified' = MapSet(lastNotified, dom[p], tnow[p])
               /\ lastNotified'[dom[p]] = tnow[p]]_vars

\* C3's case: a second admission of a domain exactly one interval after its
\* first is about to be recorded.
C3_Witness ==
    \E p \in Procs :
        /\ pc[p] = "d_set"
        /\ dInterval > 0
        /\ admitted[dom[p]] # ZeroTime
        /\ tnow[p] - admitted[dom[p]] = dInterval

\* The distance of two times.
Dist(t, u) == IF t >= u THEN t - u ELSE u - t

\* C4: the time of a call being the one it reads at the global gate, a call
\* made less than interval_global after the last admitted call is denied
\* with (false, "global"), whatever its domain, and a call that is admitted
\* is at least interval_global away from the last admitted one.
C4_GlobalSpacing ==
    [][\A p \in Procs :
         /\ (/\ Stepped(p)
             /\ pc[p] = "g_check"
             /\ lastAdmitted # ZeroTime
             /\ Dist(now, lastAdmitted) < gInterval) =>
               ret'[p] = DeniedGlobal
         /\ (Stepped(p) /\ ret'[p] = Admitted) =>
               (lastAdmitted = ZeroTime \/ Dist(at[p], lastAdmitted) >= gInterval)]_vars

\* C4's case: a call for another domain than the one just admitted has been
\* denied by the global gate, less than interval_global after that admission.
C4_Witness ==
    \E p \in Procs, d \in Domains :
        /\ pc[p] = "idle"
        /\ ret[p] = DeniedGlobal
        /\ d # dom[p]
        /\ admitted[d] # ZeroTime
        /\ lastAdmitted = lastSent
        /\ now - lastAdmitted < gInterval
        /\ dom[p] \notin DOMAIN lastNotified

\* goroutine 1's result, once the scripted call number i has returned
ScenarioResult(i) ==
    (Len(script) = 4 - i /\ pc[1] = "idle" /\ ret[1].op = "ShouldNotify")
        => ret[1] = << Admitted, DeniedGlobal, DeniedGlobal, Admitted >>[i]

\* C5: scenario A.  On a fresh notifier with rates 1 per 5 min and 1 per min,
\* ShouldNotify("a.com") at t0, ("a.com") at t0+1s, ("b.com") at t0+30s and
\* ("b.com") at t0+61s return (true, ""), (false, "global"), (false,
\* "global") and (true, "").
C5_ScenarioA == \A i \in 1..4 : ScenarioResult(i)

\* C5's case: the fourth call of the script has returned.
C5_Witness ==
    /\ script = << >>
    /\ pc[1] = "idle"
    /\ ret[1] = Admitted
    /\ dom[1] = "b.com"
    /\ DOMAIN lastNotified = {"a.com", "b.com"}
    /\ lastNotified["b.com"] - lastNotified["a.com"] = 61

\* C6: the time an admission records (for a domain, and at the global gate)
\* is at least one interval after the time the admission before it recorded,
\* whichever goroutines made the two and however their steps interleave.
C6_AdmissionsAtomic ==
    [][\A p \in Procs :
         /\ (Stepped(p) /\ pc[p] = "d_set") =>
               \/ admitted[dom[p]] = ZeroTime
               \/ tnow[p] - admitted[dom[p]] >= dInterval
         /\ (Stepped(p) /\ pc[p] = "g_set") =>
               \/ lastSent = ZeroTime
               \/ tnow[p] - lastSent >= gInterval]_vars

\* C6's case: two goroutines are in the domain limiter for the same domain
\* at once, one about to record its admission, the other waiting its turn.
C6_Witness ==
    \E p, q \in Procs :
        /\ p # q
        /\ pc[p] = "d_set"
        /\ pc[q] = "d_lock"
        /\ dom[p] = dom[q]
        /\ dInterval > 0

\* No goroutine holds both mutexes.
NoBothLocks == \A p \in Procs : ~(gMu = p /\ dMu = p)

\* While a call is under way, some call can take a step.
NoDeadlock ==
    (\E p \in Procs : pc[p] # "idle") => (\E p \in Procs : ENABLED Step(p))

\* C7: no goroutine ever holds the global and the domain mutex together, no
\* state with a call under way is a deadlock, and under fair scheduling
\* every call that has started returns.
C7_NoNestingNoDeadlock ==
    /\ [](NoBothLocks /\ NoDeadlock)
    /\ \A p \in Procs : (pc[p] # "idle") ~> (pc[p] = "idle")

\* C7's case: both mutexes are held, by different goroutines, while a third
\* call could not be further: each holder is inside its critical section.
C7_Witness ==
    /\ gMu # 0
    /\ dMu # 0
    /\ gMu # dMu
    /\ pc[gMu] = "g_set"
    /\ pc[dMu] \in {"d_set", "c_body"}

\* The entries Cleanup at time `when` is to keep: age at most 2 x interval.
Fresh(m, when) == {d \in DOMAIN m : when - m[d] <= 2 * dInterval}

\* C8: Cleanup() at time now deletes the entries whose age now - lastAdmit is
\* more than 2 x interval_domain and no other: an entry of age at most
\* 2 x interval_domain keeps its key and its time, none is added, and the
\* global window is as it was.
C8_CleanupRemovesExactlyStale ==
    [][\A p \in Procs :
         (Stepped(p) /\ pc[p] = "c_body") =>
            /\ DOMAIN lastNotified' = Fresh(lastNotified, now)
            /\ \A d \in DOMAIN lastNotified' : lastNotified'[d] = lastNotified[d]
            /\ lastSent' = lastSent
            /\ admitted' = admitted]_vars

\* C8's case: a Cleanup has deleted an entry and kept one of age exactly
\* 2 x interval_domain.
C8_Witness ==
    \E p \in Procs, d \in Domains :
        /\ pc[p] = "idle"
        /\ ret[p].op = "Cleanup"
        /\ ret[p].removed >= 1
        /\ dInterval > 0
        /\ d \in DOMAIN lastNotified
        /\ now - lastNotified[d] = 2 * dInterval

\* C9: at every clock value, Cleanup() twice leaves the map that Cleanup()
\* once leaves.
C9_CleanupIdempotent ==
    \A t \in 0..deadline :
        cleanup(cleanup(lastNotified, t), t) = cleanup(lastNotified, t)

\* C9's case: a Cleanup has deleted an entry and left another, and the clock
\* has not moved since: a second one now would find the map it left.
C9_Witness ==
    \E p \in Procs :
        /\ pc[p] = "idle"
        /\ ret[p].op = "Cleanup"
        /\ ret[p].removed >= 1
        /\ lastNotified # << >>
        /\ cleanup(lastNotified, now) = lastNotified
        /\ \E d \in DOMAIN lastNotified : now - lastNotified[d] < 2 * dInterval

\* The rates C10 is checked for, besides the configured ones: -MaxRate..MaxRate.
MaxRate == 12

\* interval is base / rate, truncated, for a rate above 1, and base otherwise.
Derived(interval, rate, base) ==
    /\ rate <= 1 => interval = base
    /\ rate > 1 => (interval * rate <= base /\ base < (interval + 1) * rate)

IntervalsDerived ==
    /\ Derived(dInterval, perFiveMinutes, 5 * Minute)
    /\ Derived(gInterval, perMinute, Minute)
    /\ \A r \in -MaxRate..MaxRate :
          /\ Derived(newDomainRateLimit(r), r, 5 * Minute)
          /\ Derived(newGlobalRateLimit(r), r, Minute)
    /\ newDomainRateLimit(0) = 5 * Minute
    /\ newDomainRateLimit(1) = 5 * Minute
    /\ newDomainRateLimit(5) = Minute

\* C10: interval_domain is 5 min for a rate of at most 1 (0, 1 and below)
\* and 5 min / rate, truncated, above (1 min for 5); interval_global is the
\* same on a base of 1 min; and no operation changes either.
C10_IntervalDerivation ==
    /\ []IntervalsDerived
    /\ [][dInterval' = dInterval /\ gInterval' = gInterval
           /\ perFiveMinutes' = perFiveMinutes /\ perMinute' = perMinute]_vars

\* C10's case: rates that do not divide their bases (7 and 20: 42 s and
\* 3 s), still in place after admissions and a Cleanup.
C10_Witness ==
    /\ perFiveMinutes = 7
    /\ dInterval = 42
    /\ perMinute = 20
    /\ gInterval = 3
    /\ lastAdmitted # ZeroTime
    /\ \E p \in Procs : ret[p].op = "Cleanup"

\* Domain d's entry of the map is the same before and after the step.
EntryKept(d) ==
    /\ d \in DOMAIN lastNotified' <=> d \in DOMAIN lastNotified
    /\ d \in DOMAIN lastNotified => lastNotified'[d] = lastNotified[d]

\* Goroutine p is inside ShouldNotify.
InShouldNotify(p) ==
    pc[p] \in {"g_lock", "g_check", "g_set", "d_lock", "d_check", "d_set"}

\* C15: a key of the map has been admitted, and its time is that of its
\* most recent admission; a key appears only as a ShouldNotify for it returns
\* (true, ""); and no step of a ShouldNotify other than the recording of an
\* admission of d (so none of a denied call, none of a call for another
\* domain) creates, deletes or changes d's entry.
C15_EntriesAreAdmissions ==
    [][/\ \A d \in DOMAIN lastNotified' :
             admitted'[d] # ZeroTime /\ lastNotified'[d] = admitted'[d]
       /\ \A d \in Domains :
             (d \in DOMAIN lastNotified' /\ d \notin DOMAIN lastNotified) =>
                \E p \in Procs :
                    Stepped(p) /\ pc[p] = "d_set" /\ dom[p] = d /\ ret'[p] = Admitted
       /\ \A p \in Procs, d \in Domains :
             (/\ Stepped(p)
              /\ InShouldNotify(p) \/ pc'[p] = "g_lock"
              /\ ~(pc[p] = "d_set" /\ dom[p] = d)) => EntryKept(d)]_vars

\* C15's case: both domains are in the map, and a call for the one admitted
\* first has since been denied by its gate, after the other's admission.
C15_Witness ==
    \E p \in Procs, d \in Domains :
        /\ pc[p] = "idle"
        /\ ret[p] = DeniedDomain
        /\ d # dom[p]
        /\ DOMAIN lastNotified = {d, dom[p]}
        /\ lastNotified[dom[p]] < lastNotified[d]
        /\ now > lastNotified[d]

\* C18: a ShouldNotify that the domain gate denies leaves the global window
\* at the time that very call read at the global gate, the window is never
\* moved back, and a call that reaches the global gate less than
\* interval_global after that time is denied with (false, "global").
C18_DomainDenialConsumesGlobal ==
    [][/\ lastSent' >= lastSent
       /\ \A p \in Procs :
            /\ (Stepped(p) /\ ret'[p] = DeniedDomain) =>
                  /\ lastSent = at[p]
                  /\ lastSent' = at[p]
                  /\ lastAdmitted' = lastAdmitted
            /\ (/\ Stepped(p)
                /\ pc[p] = "g_check"
                /\ lastSent # ZeroTime
                /\ now - lastSent < gInterval) => ret'[p] = DeniedGlobal]_vars

\* C18's case: a call for a domain never admitted has been denied by the
\* global gate although the last admission is a full interval_global back:
\* the window it ran into is the one a domain-denied call left.
C18_Witness ==
    \E p \in Procs :
        /\ pc[p] = "idle"
        /\ ret[p] = DeniedGlobal
        /\ dom[p] \notin DOMAIN lastNotified
        /\ admitted[dom[p]] = ZeroTime
        /\ lastAdmitted # ZeroTime
        /\ lastSent > lastAdmitted
        /\ now - lastSent < gInterval
        /\ now - lastAdmitted >= gInterval

\* The domain gate's test on the map of the run that never calls Cleanup:
\* that map holds, for every domain admitted, the time of its last admission.
deniesWithoutCleanup(d, t) ==
    /\ admitted[d] # ZeroTime
    /\ Sub(t, admitted[d]) < dInterval

\* C19: Cleanup does not show in any result.  The run with the Cleanup calls
\* left out makes the same calls on a map that differs only by the entries
\* Cleanup deleted; the global gate does not read the map; and at every
\* moment the domain gate's test gives the same answer on both maps, for
\* every domain.  Equal answers lead to equal updates, so the two runs
\* return the same (admitted, blockedBy) call by call.
C19_CleanupInvisible ==
    \A d \in Domains :
        /\ d \in DOMAIN lastNotified => lastNotified[d] = admitted[d]
        /\ domainDenies(d, now) <=> deniesWithoutCleanup(d, now)

\* C19's case: the domain gate is about to test a domain whose entry a
\* Cleanup has deleted.
C19_Witness ==
    \E p \in Procs :
        /\ pc[p] = "d_check"
        /\ admitted[dom[p]] # ZeroTime
        /\ dom[p] \notin DOMAIN lastNotified
        /\ dInterval > 0

\* The number of entries of the map after the step.
EntriesAfter == Cardinality(DOMAIN lastNotified')

\* The bound as stated: one entry per global admission of the last
\* 2 x interval_domain.
StatedBound == (2 * dInterval) \div gInterval + 1

limiters == <<perFiveMinutes, perMinute, dInterval, gInterval, lastNotified,
              lastSent, dMu, gMu>>

\* What a goroutine serving a query can see: its place, what its calls
\* returned, its frame.
producer == <<pc, dom, ret, work>>

\* The send started i-th ends in this step.
Ends(i) == tasks[i].st # "ended" /\ tasks'[i].st = "ended"

\* Goroutine p returns from SendAsync, and from processNotifications, in
\* this step.
Sends(p) == work[p].stage = "called" /\ work'[p].stage = "sent"

\* The sends other than the i-th are as they were.
OthersKept(i) ==
    /\ Len(tasks') = Len(tasks)
    /\ \A j \in 1..Len(tasks) : j # i => tasks'[j] = tasks[j]

\* C11: the step in which a send ends, whatever its outcome, leaves the rate
\* limiters (both windows among them) and every producer as they are; a
\* failure is written to the error log and a success is not; and the step
\* in which SendAsync returns hands the producer nothing: its frame is as
\* after any other SendAsync, and the send has not begun.
C11_FailureOnlyLogged ==
    [][/\ \A i \in 1..Len(tasks) :
            Ends(i) =>
               /\ UNCHANGED <<limiters, hist, producer>>
               /\ OthersKept(i)
               /\ IF tasks'[i].err = ""
                  THEN errlog' = errlog
                  ELSE errlog' = Append(errlog, LogLine(i, tasks'[i].err))
       /\ \A p \in Procs :
            Sends(p) =>
               /\ work'[p] = [NoWork EXCEPT !.stage = "sent"]
               /\ UNCHANGED <<limiters, hist, pc, dom, ret, sink, errlog>>
               /\ tasks'[Len(tasks')].st = "spawned"]_vars

\* C11's case: a send has ended on HTTP 500, the one line about it is in
\* the log, the producer has long returned, and both windows still stand at
\* the admission.
C11_Witness ==
    \E i \in 1..Len(tasks) :
        /\ tasks[i].st = "ended"
        /\ tasks[i].status = 500
        /\ errlog = <<LogLine(i, "pushover returned status")>>
        /\ work[1].stage = "sent"
        /\ lastSent # ZeroTime
        /\ tasks[i].event.Domain \in DOMAIN lastNotified
        /\ lastNotified[tasks[i].event.Domain] = lastAdmitted

\* A step starts one send, not yet begun, if SendAsync returns in it and
\* none otherwise; no send calls client.Do a second time; a send that has
\* ended stays as it ended.
OneSendOneAttempt ==
    /\ \A p \in Procs :
          Sends(p) =>
             /\ tasks' = Append(tasks, tasks'[Len(tasks')])
             /\ tasks'[Len(tasks')].st = "spawned"
             /\ tasks'[Len(tasks')].attempts = 0
    /\ Len(tasks') # Len(tasks) => \E p \in Procs : Sends(p)
    /\ \A i \in 1..Len(tasks) :
          /\ tasks'[i].attempts <= 1
          /\ tasks'[i].attempts >= tasks[i].attempts
          /\ tasks[i].st = "ended" => tasks'[i] = tasks[i]
          /\ Ends(i) => tasks'[i].attempts = 1

\* C12: the step in which SendAsync returns adds exactly one send, not yet
\* begun, whatever the sends before it are doing; a send calls client.Do at
\* most once and, once ended, stays as it ended (nothing is tried again,
\* nothing is queued); and every send started ends.
C12_OneTaskOneAttempt ==
    /\ [][OneSendOneAttempt]_vars
    /\ \A i \in TaskIds :
          (Len(tasks) >= i) ~> (Len(tasks) >= i /\ tasks[i].st = "ended")

\* C12's case: SendAsync has returned from starting a second send while the
\* first, whose request is out, has no answer yet.
C12_Witness ==
    /\ Len(tasks) = 2
    /\ tasks[1].st = "issued"
    /\ tasks[2].st = "spawned"
    /\ work[1].stage = "sent"

\* The request of the send started i-th has reached the endpoint.
Reached(i) == \E k \in 1..Len(sink) : sink[k].task = i

\* C13: a send that has ended returned nil exactly if its request went out
\* and client.Do returned a response of status 200; with any other status
\* it returned the error of the status, and with no response (status 0) the
\* error of the transport.
C13_SuccessIsExactly200 ==
    \A i \in 1..Len(tasks) :
        tasks[i].st = "ended" =>
           /\ tasks[i].err = "" <=> (Reached(i) /\ tasks[i].status = StatusOK)
           /\ tasks[i].status \in Statuses \ {StatusOK} =>
                 tasks[i].err = "pushover returned status"
           /\ tasks[i].status = 0 => tasks[i].err = "sending request"

\* C13's case: one send has ended in failure on a 204, another in failure
\* without a response.
C13_Witness ==
    /\ Len(tasks) = 2
    /\ tasks[1].st = "ended" /\ tasks[1].status = 204 /\ tasks[1].err # ""
    /\ tasks[2].st = "ended" /\ tasks[2].status = 0 /\ Reached(2)

\* Title t ends with the words w.
EndsWith(t, w) ==
    /\ Len(t) >= Len(w)
    /\ SubSeq(t, Len(t) - Len(w) + 1, Len(t)) = w

\* The words the title of a reason is to end with.
Bucket(reason) ==
    CASE reason = "FilteredBlockList" -> <<"Blocked">>
      [] reason = "NotFilteredAllowList" -> <<"Allowed">>
      [] reason = "Rewritten" -> <<"Rewritten">>
      [] reason = "RewrittenRule" -> <<"Rewritten">>
      [] OTHER -> <<"Custom", "Rule", "Match">>

\* C14: every send that has made its title, whatever its event's reason,
\* has one that ends with the words of the reason's bucket: Blocked for the
\* blocklist match, Allowed for the allowlist match, Rewritten for both
\* rewrites, Custom Rule Match for every other reason; and there are four
\* titles in all.
C14_TitleBuckets ==
    /\ \A i \in 1..Len(tasks) :
          tasks[i].st # "spawned" =>
             /\ tasks[i].event.Reason \in Reasons
             /\ EndsWith(tasks[i].title, Bucket(tasks[i].event.Reason))
    /\ \A k \in 1..Len(sink) : sink[k].title = tasks[sink[k].task].title
    /\ Cardinality({formatTitle(r) : r \in Reasons}) = 4

\* C14's case: the request of an event whose reason is RewrittenRule is at
\* the endpoint, under the title of the rewrites.
C14_Witness ==
    \E k \in 1..Len(sink) :
        /\ tasks[sink[k].task].event.Reason = "RewrittenRule"
        /\ EndsWith(sink[k].title, <<"Rewritten">>)

\* C16: a processNotifications without a matched rule returns with the
\* limiters, the sends and the goroutine's place in ShouldNotify untouched;
\* one with a match calls ShouldNotify(host) as it starts and not again;
\* when that call has returned it starts one send if the call admitted, of
\* the event of host, Rules[0] and the reason, and none if it denied; and a
\* send is started by nothing else.
C16_ProducerFlow ==
    [][\A p \in Procs :
         /\ (work'[p] # work[p] /\ work'[p].stage = "skipped") =>
               UNCHANGED <<limiters, hist, pc, dom, ret, tasks, sink, errlog>>
         /\ (work[p].stage # "called" /\ work'[p].stage = "called") =>
               /\ pc[p] = "idle" /\ pc'[p] = "g_lock"
               /\ dom'[p] \in names
               /\ Len(work'[p].result.Rules) > 0
               /\ UNCHANGED <<limiters, tasks>>
         /\ (work[p].stage = "called" /\ pc[p] = "idle") => pc'[p] = "idle"
         /\ (work[p].stage = "called" /\ work'[p].stage # "called") =>
               /\ pc[p] = "idle"
               /\ UNCHANGED limiters
               /\ IF ret[p] = Admitted
                  THEN /\ work'[p].stage = "sent"
                       /\ tasks' = Append(tasks,
                                     Task(work[p].ctxDone,
                                          NotificationEvent(dom[p],
                                              Head(work[p].result.Rules),
                                              work[p].result.Reason)))
                  ELSE /\ work'[p].stage = "denied"
                       /\ ret[p] \in {DeniedGlobal, DeniedDomain}
                       /\ tasks' = tasks
         /\ Len(tasks') # Len(tasks) => \E q \in Procs : Sends(q)]_vars

\* C16's case: a match has been denied by the domain gate and has started
\* no send; the one send there is came from an earlier match of two rules
\* and carries the first of them.
C16_Witness ==
    \E p \in Procs :
        /\ work[p].stage = "denied"
        /\ ret[p] = DeniedDomain
        /\ Len(tasks) = 1
        /\ tasks[1].event.RuleText = "r2"
        /\ tasks[1].event.Domain = dom[p]

\* C17: a send whose context is done before client.Do is called puts no
\* request on the wire and ends with an error, which is logged, the rate
\* limiters, the producers and the other sends staying as they are; and
\* the cancellation of a send's context changes that send's context and
\* nothing else.
C17_CancelledBeforeIssue ==
    [][\A i \in 1..Len(tasks) :
         /\ (tasks[i].st = "spawned" /\ tasks[i].ctxDone /\ tasks'[i] # tasks[i]) =>
               /\ sink' = sink
               /\ tasks'[i].st = "ended"
               /\ tasks'[i].err = "sending request"
               /\ errlog' = Append(errlog, LogLine(i, "sending request"))
               /\ OthersKept(i)
               /\ UNCHANGED <<limiters, hist, producer>>
         /\ (~tasks[i].ctxDone /\ tasks'[i].ctxDone) =>
               /\ tasks' = [tasks EXCEPT ![i].ctxDone = TRUE]
               /\ UNCHANGED <<limiters, hist, producer, sink, errlog>>]_vars

\* C17's case: a send whose context was cancelled before its request has
\* ended, logged and never at the endpoint, next to another that has ended
\* in success, with the global window where the admissions left it.
C17_Witness ==
    \E i, j \in 1..Len(tasks) :
        /\ tasks[i].st = "ended" /\ tasks[i].ctxDone /\ ~Reached(i)
        /\ \E k \in 1..Len(errlog) : errlog[k] = LogLine(i, "sending request")
        /\ tasks[j].st = "ended" /\ tasks[j].err = "" /\ Reached(j)
        /\ lastSent = lastAdmitted
        /\ lastSent # ZeroTime

====
